---- MODULE Spec2Model ----
(***************************************************************************)
(* ReminderAgent (src/src/agent.ts): one agent instance per identity, a    *)
(* conversation history kept in agent state, chat turns answered by a      *)
(* completion endpoint, and one-off reminders registered with the agent    *)
(* scheduler and delivered to sendReminder.                                *)
(*                                                                         *)
(* Strings are sequences of one-character strings, so that trim() and the  *)
(* template literal of sendReminder are computed, not assumed.  JSON       *)
(* values are tagged records (undefined / number / string).  Times are     *)
(* milliseconds, as Date.now() gives them; a time value, which reaches     *)
(* 8.64e15, is a natural written in bits, least significant first.         *)
(***************************************************************************)
EXTENDS Integers, Sequences, FiniteSets, TLC

\* ------------------------------------------------------------- bounds
\* chat turns and reminder registrations admitted per run; requests that are
\* turned away are not counted
MaxReq == 2

\* ------------------------------------------------------ program constants
\* agent.ts:61   `: 60`
DefaultDelay == 60
\* agent.ts:126  `delayInSeconds * 1000`
MsPerSecond == 1000

\* ----------------------------------------------------------- JSON values
Undefined == [type |-> "undefined"]
\* a JSON number, written num / den * 10^exp
Num(n) == [type |-> "number", num |-> n, den |-> 1, exp |-> 0]
Frac(n, d) == [type |-> "number", num |-> n, den |-> d, exp |-> 0]
Sci(n, e) == [type |-> "number", num |-> n, den |-> 1, exp |-> e]
Str(s) == [type |-> "string", str |-> s]

REMIND == <<"r", "e", "m", "i", "n", "d">>
SEND_REMINDER == <<"s", "e", "n", "d", "R", "e", "m", "i", "n", "d", "e", "r">>
\* agent.ts:139  the literal part of `⏰ Reminder: ${message}`
ReminderPrefix == <<"⏰", " ", "R", "e", "m", "i", "n", "d", "e", "r", ":", " ">>

Identities == {"alice", "bob"}

\* ------------------------------------------------------------ input sets
\* the message field: absent, not a string, empty, blank, or a text (kept
\* as sent, with its leading blank)
BadMessages == {Undefined, Num(7), Str(<<>>), Str(<<"\r", " ", " ", "U+2028">>)}
GoodMessages == {Str(<<" ", "b">>)}
\* the delay field: absent, zero, negative, one second, thirty days, half a
\* millisecond (0.0005), 1e13 seconds, not a number
DelayVals ==
    {Undefined, Num(0), Num(-1), Num(1), Num(2592000), Frac(1, 2000), Sci(1, 13),
     Str(<<"5">>)}
\* the action field: absent, "remind", anything else
OtherAction == Str(<<"x">>)
\* a body that request.json() rejects, or the parsed object
Body(a, m, d) == [json |-> TRUE, action |-> a, message |-> m, delay |-> d]
NotJson == [json |-> FALSE]
\* the body `null`: valid JSON, but not an object
NullBody == [json |-> TRUE, null |-> TRUE]
\* delay is read in the reminder branch only, after the message is checked
Bodies ==
    {NotJson, NullBody} \cup
    {Body(Undefined, m, Undefined) : m \in BadMessages \cup GoodMessages} \cup
    {Body(OtherAction, m, Undefined) : m \in GoodMessages} \cup
    {Body(Str(REMIND), m, Undefined) : m \in BadMessages} \cup
    {Body(Str(REMIND), m, d) : m \in GoodMessages, d \in DelayVals}
\* the bodies of well-formed chat and reminder requests without a delay
WellFormed ==
    {Body(a, m, Undefined) : a \in {Undefined, OtherAction}, m \in GoodMessages} \cup
    {Body(Str(REMIND), m, Undefined) : m \in GoodMessages}
\* alice sends well-formed requests; bob sends every kind of body and, the
\* method being read before the body, one request that is not a POST
Requests ==
    {[to |-> "alice", method |-> "POST", body |-> b] : b \in WellFormed} \cup
    {[to |-> "bob", method |-> "POST", body |-> b] : b \in Bodies} \cup
    {[to |-> "bob", method |-> "GET", body |-> Body(Undefined, m, Undefined)] :
        m \in GoodMessages}

\* what the completion endpoint can answer: res.ok with a content (absent
\* content is read as ""), a non-2xx status, or a transport failure
Completions == {Undefined, Str(<<>>), Str(<<"o", "k">>)}
FetchResults ==
    {[kind |-> "ok", content |-> c] : c \in Completions} \cup
    {[kind |-> "status"], [kind |-> "throw"]}

\* ------------------------------------------------------------- strings
\* the characters String.prototype.trim strips: the WhiteSpace and
\* LineTerminator code points of ECMAScript.  A character is a one-character
\* string; U+0009, U+000A, U+000B, U+000C, U+000D, U+0020, U+00A0, U+1680 and
\* U+FEFF are written as themselves, and the code points a TLA+ string cannot
\* hold are written by their names
WhiteSpace ==
    {"\t", "\n", "", "\f", "\r", " ", " ", " ", "﻿",
     "U+2000", "U+2001", "U+2002", "U+2003", "U+2004", "U+2005", "U+2006",
     "U+2007", "U+2008", "U+2009", "U+200A", "U+2028", "U+2029", "U+202F",
     "U+205F", "U+3000"}

IsSpace(c) == c \in WhiteSpace

RECURSIVE trimStart(_)
trimStart(s) ==
    IF s = <<>> THEN <<>>
    ELSE IF IsSpace(Head(s)) THEN trimStart(Tail(s)) ELSE s

RECURSIVE trimEnd(_)
trimEnd(s) ==
    IF s = <<>> THEN <<>>
    ELSE IF IsSpace(s[Len(s)]) THEN trimEnd(SubSeq(s, 1, Len(s) - 1)) ELSE s

\* String.prototype.trim
trim(s) == trimEnd(trimStart(s))

\* agent.ts:58, 69  typeof message !== "string" || message.trim() === ""
MissingMessage(message) ==
    \/ message.type # "string"
    \/ trim(message.str) = <<>>

\* agent.ts:61  typeof delay === "number" && delay > 0 ? delay : 60
secsOf(delay) ==
    IF delay.type = "number" /\ delay.num > 0 THEN delay ELSE Num(DefaultDelay)

\* ------------------------------------------------------------- numbers
\* A JavaScript number is an IEEE 754 double.  The naturals the arithmetic
\* below goes through are beyond the integers of the model, so they are
\* sequences of bits, least significant first, and are added, multiplied
\* and divided in digits of LimbBits bits
LimbBits == 15
Base == 2 ^ LimbBits

Bit(b, n) == IF n \in 1..Len(b) THEN b[n] ELSE 0

\* without the zero bits at the high end
Strip(b) ==
    IF \A n \in 1..Len(b) : b[n] = 0 THEN <<>>
    ELSE SubSeq(b, 1, CHOOSE n \in 1..Len(b) :
                         b[n] = 1 /\ \A m \in (n + 1)..Len(b) : b[m] = 0)

\* an integer of the model as bits
BitsOf(n) == Strip([k \in 1..31 |-> (n \div 2 ^ (k - 1)) % 2])

\* the value of the n bits of b from bit lo on
RECURSIVE Val(_, _, _)
Val(b, lo, n) == IF n = 0 THEN 0 ELSE Bit(b, lo) + 2 * Val(b, lo + 1, n - 1)

LimbsOf(b) ==
    [j \in 1..((Len(b) + LimbBits - 1) \div LimbBits) |->
        Val(b, LimbBits * (j - 1) + 1, LimbBits)]
OfLimbs(l) ==
    Strip([n \in 1..(LimbBits * Len(l)) |->
              (l[(n - 1) \div LimbBits + 1] \div 2 ^ ((n - 1) % LimbBits)) % 2])

\* b * 2^k
Shl(b, k) == IF b = <<>> THEN <<>> ELSE [n \in 1..k |-> 0] \o b

\* a + b + carry, in digits
RECURSIVE AddCarry(_, _, _)
AddCarry(a, b, carry) ==
    IF a = <<>> /\ b = <<>> THEN (IF carry = 0 THEN <<>> ELSE <<carry>>)
    ELSE LET x == (IF a = <<>> THEN 0 ELSE a[1]) + (IF b = <<>> THEN 0 ELSE b[1]) + carry
         IN  <<x % Base>> \o AddCarry(IF a = <<>> THEN <<>> ELSE Tail(a),
                                      IF b = <<>> THEN <<>> ELSE Tail(b),
                                      x \div Base)
Add(a, b) == OfLimbs(AddCarry(LimbsOf(a), LimbsOf(b), 0))

\* l * c + carry, in digits, for a c below Base
RECURSIVE MulCarry(_, _, _)
MulCarry(l, c, carry) ==
    IF l = <<>> THEN (IF carry = 0 THEN <<>> ELSE <<carry>>)
    ELSE LET x == l[1] * c + carry
         IN  <<x % Base>> \o MulCarry(Tail(l), c, x \div Base)
Mul(b, c) == OfLimbs(MulCarry(LimbsOf(b), c, 0))

RECURSIVE MulPow10(_, _)
MulPow10(b, e) ==
    IF e = 0 THEN b
    ELSE IF e >= 4 THEN MulPow10(Mul(b, 10000), e - 4)
    ELSE MulPow10(Mul(b, 10), e - 1)

\* quotient and remainder of l by q, in digits, for a q below Base
RECURSIVE DivDigits(_, _)
DivDigits(l, q) ==
    IF l = <<>> THEN [quot |-> <<>>, rem |-> 0]
    ELSE LET h == DivDigits(Tail(l), q)
             r == h.rem * Base + l[1]
         IN  [quot |-> <<r \div q>> \o h.quot, rem |-> r % q]
DivMod(b, q) ==
    LET d == DivDigits(LimbsOf(b), q) IN [quot |-> OfLimbs(d.quot), rem |-> d.rem]

\* a < b, for two naturals without high zero bits
Less(a, b) ==
    \/ Len(a) < Len(b)
    \/ /\ Len(a) = Len(b)
       /\ \E n \in 1..Len(a) :
             /\ a[n] < b[n]
             /\ \A m \in (n + 1)..Len(a) : a[m] = b[m]

\* the bits of a double's significand
Precision == 53

\* the double nearest to b * 2^e (plus something below the last bit of b when
\* `sticky`), ties to even: [m, e] stands for m * 2^e, m of at most Precision
\* bits or a power of two.  Exponents stay within the normal range for the
\* numbers of the model.
RoundToDouble(b, e, sticky) ==
    IF Len(b) <= Precision THEN [m |-> b, e |-> e]
    ELSE LET s == Len(b) - Precision
             kept == SubSeq(b, s + 1, Len(b))
             rest == sticky \/ \E n \in 1..(s - 1) : b[n] = 1
             up == b[s] = 1 /\ (rest \/ kept[1] = 1)
         IN  [m |-> IF up THEN Add(kept, <<1>>) ELSE kept, e |-> e + s]

Max(a, b) == IF a >= b THEN a ELSE b

\* agent.ts:51  request.json(): the double a positive JSON number, of a
\* denominator below Base, is read as
ToDouble(v) ==
    LET p == MulPow10(BitsOf(v.num), v.exp)
        k == Max(0, Precision + 2 + Len(BitsOf(v.den)) - Len(p))
        d == DivMod(Shl(p, k), v.den)
    IN  RoundToDouble(d.quot, 0 - k, d.rem # 0)

\* x * c in doubles, for a small natural c
Times(x, c) == RoundToDouble(Mul(x.m, c), x.e, FALSE)

\* t + x in doubles, for a natural t
Plus(t, x) ==
    IF x.e >= 0
    THEN RoundToDouble(Add(t, Shl(x.m, x.e)), 0, FALSE)
    ELSE RoundToDouble(Add(Shl(t, 0 - x.e), x.m), x.e, FALSE)

\* the largest time value of a Date: 8.64e15 ms
MaxTime == MulPow10(BitsOf(864), 13)

\* a Date holds a time value in whole milliseconds, or NaN
InvalidDate == [invalid |-> TRUE]
IsValidDate(d) == d # InvalidDate

\* new Date(x) for a positive double x: beyond 8.64e15 an Invalid Date, else
\* x cut to whole milliseconds (TimeClip)
TimeClip(x) ==
    LET whole == IF x.e >= 0 THEN Shl(x.m, x.e)
                 ELSE SubSeq(x.m, 1 - x.e, Len(x.m))
    IN  IF Less(MaxTime, Strip(whole)) THEN InvalidDate
        ELSE [ms |-> Strip(whole)]

\* agent.ts:126  new Date(Date.now() + delayInSeconds * 1000), for
\* Date.now() = t and a positive delay
newDate(t, delayInSeconds) ==
    TimeClip(Plus(t, Times(ToDouble(delayInSeconds), MsPerSecond)))

\* ---------------------------------------------------------------- state
VARIABLES
    now,        \* Date.now(), in bits
    state,      \* this.state.history of each agent instance (in memory)
    stored,     \* the history last written by setState (durable)
    tasks,      \* the scheduler's pending tasks (durable)
    nextId,     \* source of fresh schedule ids
    calls,      \* the chat turns admitted so far, in admission order
    fired,      \* the reminders delivered so far
    registrar,  \* for each schedule id, the identity whose request registered it
    origin,     \* for each entry of state, the invocation that pushed it
    originP,    \* the same for stored
    survived,   \* the ids of the tasks that were pending when their owner restarted
    unanswered, \* the ids of the tasks registered by a request not yet answered
    refused,    \* for each identity, the reminder requests suspended at
                \* `await this.schedule` whose registration the scheduler refuses
    response,   \* the HTTP response this step sent, if any
    action      \* the action field of the request this step handled, if any

vars ==
    <<now, state, stored, tasks, nextId, calls, fired, registrar, origin, originP,
      survived, unanswered, refused, response, action>>

\* agent.ts:37-39
initialState == [history |-> <<>>]

NoResponse == [status |-> 0]
NoRequest == [type |-> "none"]
\* agent.ts:55  const { action, message, delay } = data
actionOf(req) ==
    IF req.body.json /\ req.body # NullBody THEN req.body.action ELSE NoRequest
\* what the caller gets when onRequest throws: no Response is built by the
\* agent, the runtime answers for it
Uncaught(thrown) == [status |-> 500, text |-> "uncaught exception", thrown |-> thrown]

Init ==
    /\ now = BitsOf(0)
    /\ state = [i \in Identities |-> initialState.history]
    /\ stored = [i \in Identities |-> initialState.history]
    /\ tasks = {}
    /\ nextId = 1
    /\ calls = <<>>
    /\ fired = {}
    /\ registrar = <<>>
    /\ origin = [i \in Identities |-> <<>>]
    /\ originP = [i \in Identities |-> <<>>]
    /\ survived = {}
    /\ unanswered = {}
    /\ refused = [i \in Identities |-> 0]
    /\ response = NoResponse
    /\ action = NoRequest

\* the chat turns suspended at `await fetch`
Pending == {k \in 1..Len(calls) : calls[k].status = "pending"}
PendingOn(i) == {k \in Pending : calls[k].id = i}
\* the chat turns whose generateResponse has returned or thrown, and whose
\* onRequest has not resumed from `await this.generateResponse` yet
Resuming == {k \in 1..Len(calls) : calls[k].status \in {"returned", "threw"}}
RECURSIVE SumOver(_, _)
SumOver(f, S) ==
    IF S = {} THEN 0
    ELSE LET x == CHOOSE y \in S : TRUE IN f[x] + SumOver(f, S \ {x})
\* the requests taken up so far that were not turned away: chat turns,
\* registrations, and refused registrations not yet resumed
Accepted == Len(calls) + (nextId - 1) + SumOver(refused, Identities)

\* a copy of the array taken when the invocation started, instead of the array
historyCopy(i, held) == held

\* agent.ts:92, 138  `const history = this.state.history ?? []`: the array of
\* the state itself, whatever it held (`held`) when the invocation read it
historyRef(i, held) == state[i]

\* the push on an array that every instance shares
pushShared(i, history, entry, tag) ==
    /\ state' = [j \in Identities |-> Append(IF j = i THEN history ELSE state[j], entry)]
    /\ origin' = [j \in Identities |->
                    Append(IF j = i THEN SubSeq(origin[i], 1, Len(history)) ELSE origin[j], tag)]

\* history.push(entry) on that array; origin keeps step with the array written
push(i, history, entry, tag) ==
    /\ state' = [state EXCEPT ![i] = Append(history, entry)]
    /\ origin' = [origin EXCEPT ![i] = Append(SubSeq(@, 1, Len(history)), tag)]

\* the state written as it was before the push
setStateStale(i) ==
    /\ stored' = [stored EXCEPT ![i] = state[i]]
    /\ originP' = [originP EXCEPT ![i] = origin[i]]

\* agent.ts:117, 140  this.setState({ ...this.state, history }) after the push
setState(i) ==
    /\ stored' = [stored EXCEPT ![i] = state'[i]]
    /\ originP' = [originP EXCEPT ![i] = origin'[i]]

\* the payload built before the user message is pushed
messagesOfStale(history) ==
    [n \in 1..(Len(history) - 1) |->
        [role |-> history[n].role, content |-> history[n].content]]

\* agent.ts:98  history.map((m) => ({ role: m.role, content: m.content }))
messagesOf(history) ==
    [n \in 1..Len(history) |-> [role |-> history[n].role, content |-> history[n].content]]

\* agent.ts:126-127  the task handed to this.schedule by the agent of `i`
scheduleReminder(i, message, delayInSeconds) ==
    [id |-> nextId,
     owner |-> i,
     time |-> newDate(now, delayInSeconds),
     callback |-> SEND_REMINDER,
     payload |-> [message |-> message]]

\* agent.ts:139
reminderEntry(message) ==
    [role |-> "assistant", content |-> ReminderPrefix \o message]

\* onRequest with an action other than "remind" turned away
routeStrict(req) ==
    IF req.method # "POST" THEN "405"
    ELSE IF ~req.body.json THEN "400json"
    ELSE IF req.body = NullBody THEN "throw"
    ELSE IF req.body.action = Str(REMIND)
         THEN IF MissingMessage(req.body.message) THEN "400remind" ELSE "remind"
    ELSE IF req.body.action # Undefined THEN "400chat"
    ELSE IF MissingMessage(req.body.message) THEN "400chat" ELSE "chat"

\* agent.ts:46-71  which branch of onRequest a request takes; destructuring
\* `null` (line 55) throws a TypeError outside the try of lines 50-54
route(req) ==
    IF req.method # "POST" THEN "405"
    ELSE IF ~req.body.json THEN "400json"
    ELSE IF req.body = NullBody THEN "throw"
    ELSE IF req.body.action = Str(REMIND)
         THEN IF MissingMessage(req.body.message) THEN "400remind" ELSE "remind"
    ELSE IF MissingMessage(req.body.message) THEN "400chat" ELSE "chat"

\* agent.ts:46-48, 50-54, 55, 58-60, 69-71  the early returns and the throw
Reject(i, req) ==
    /\ route(req) \in {"405", "400json", "throw", "400remind", "400chat"}
    /\ response' = CASE route(req) = "405" -> [status |-> 405, text |-> "Method not allowed"]
                     [] route(req) = "400json" -> [status |-> 400, text |-> "Invalid JSON body"]
                     [] route(req) = "throw" -> Uncaught("TypeError")
                     [] route(req) = "400remind" ->
                            [status |-> 400, text |-> "Missing reminder message"]
                     [] route(req) = "400chat" -> [status |-> 400, text |-> "Missing message"]
    /\ UNCHANGED <<now, state, stored, tasks, nextId, calls, fired, registrar, origin, originP, survived, unanswered, refused>>

\* the reminder branch pushing the reminder when it registers it
RemindEager(i, req) ==
    /\ route(req) = "remind"
    /\ Accepted < MaxReq
    /\ LET t == scheduleReminder(i, req.body.message.str, secsOf(req.body.delay))
       IN /\ tasks' = tasks \cup {t}
          /\ unanswered' = unanswered \cup {t.id}
          /\ push(i, historyRef(i, state[i]), reminderEntry(t.payload.message),
                  <<"reminder", t.id>>)
          /\ setState(i)
    /\ response' = NoResponse
    /\ nextId' = nextId + 1
    /\ registrar' = Append(registrar, i)
    /\ UNCHANGED <<now, calls, fired, survived, refused>>

\* agent.ts:57-62, 125-127  the reminder branch up to `await this.schedule`:
\* the task is registered, the request is not answered yet
Remind(i, req) ==
    /\ route(req) = "remind"
    /\ Accepted < MaxReq
    /\ LET t == scheduleReminder(i, req.body.message.str, secsOf(req.body.delay))
       IN /\ tasks' = tasks \cup {t}
          /\ unanswered' = unanswered \cup {t.id}
    /\ response' = NoResponse
    /\ nextId' = nextId + 1
    /\ registrar' = Append(registrar, i)
    /\ UNCHANGED <<now, state, stored, calls, fired, origin, originP, survived, refused>>

\* agent.ts:127-128, 62-66  the reminder request resumes after
\* `await this.schedule` and answers with the id of its task
scheduleReturns(id) ==
    /\ id \in unanswered
    /\ unanswered' = unanswered \ {id}
    /\ response' = [status |-> 200, scheduledId |-> id]
    /\ action' = NoRequest
    /\ UNCHANGED <<now, state, stored, tasks, nextId, calls, fired, registrar, origin,
                   originP, survived, refused>>

\* agent.ts:127  `await this.schedule` resolves for one of the waiting requests
Answers == \E id \in 1..MaxReq : scheduleReturns(id)

\* agent.ts:57-62, 125-127  the reminder branch up to `await this.schedule`,
\* when the scheduler refuses the registration: no task is registered, the
\* request is not answered yet
RemindRefused(i, req) ==
    /\ route(req) = "remind"
    /\ Accepted < MaxReq
    /\ refused' = [refused EXCEPT ![i] = @ + 1]
    /\ response' = NoResponse
    /\ UNCHANGED <<now, state, stored, tasks, nextId, calls, fired, registrar, origin,
                   originP, survived, unanswered>>

\* a handler around line 62 answering 200 without an id
scheduleRejectsSwallowed(i) ==
    /\ refused[i] > 0
    /\ refused' = [refused EXCEPT ![i] = @ - 1]
    /\ response' = [status |-> 200]
    /\ action' = NoRequest
    /\ UNCHANGED <<now, state, stored, tasks, nextId, calls, fired, registrar, origin,
                   originP, survived, unanswered>>

\* agent.ts:127, 62  `await this.schedule` rejects: scheduleReminder rejects,
\* the await of line 62 is in no try, so onRequest throws and builds no
\* Response
scheduleRejects(i) ==
    /\ refused[i] > 0
    /\ refused' = [refused EXCEPT ![i] = @ - 1]
    /\ response' = Uncaught("schedule")
    /\ action' = NoRequest
    /\ UNCHANGED <<now, state, stored, tasks, nextId, calls, fired, registrar, origin,
                   originP, survived, unanswered>>

\* agent.ts:68-73, 90-109  the chat branch up to `await fetch`
Chat(i, req) ==
    /\ route(req) = "chat"
    /\ Accepted < MaxReq
    /\ push(i, historyRef(i, state[i]),
            [role |-> "user", content |-> req.body.message.str],
            <<"user", Len(calls) + 1>>)
    /\ calls' = Append(calls,
          [id |-> i,
           userMsg |-> req.body.message.str,
           held |-> state'[i],
           messages |-> messagesOf(state'[i]),
           alone |-> \A j \in Pending \cup Resuming : calls[j].id # i,
           status |-> "pending",
           reply |-> <<>>,
           response |-> NoResponse])
    /\ response' = NoResponse
    /\ UNCHANGED <<now, stored, tasks, nextId, fired, registrar, originP, survived, unanswered, refused>>

\* agent.ts:45-82  onRequest on the agent instance of identity `i`
onRequest(i, req) ==
    /\ action' = actionOf(req)
    /\ \/ Reject(i, req)
       \/ Remind(i, req)
       \/ RemindRefused(i, req)
       \/ Chat(i, req)

\* an empty completion taken for a failure
succeededNonEmpty(res) ==
    res.kind = "ok" /\ res.content.type = "string" /\ res.content.str # <<>>

\* agent.ts:102-112  fetch resolved and res.ok
succeeded(res) == res.kind = "ok"

\* agent.ts:114  json?.choices?.[0]?.message?.content ?? ""
assistantMsgOf(res) ==
    IF res.content.type = "undefined" THEN <<>> ELSE res.content.str

\* a failed completion taking the turn's user message back out of the history
fetchReturnsRollback(k, res) ==
    /\ k \in Pending
    /\ LET i == calls[k].id
           without(seq) ==
               [n \in 1..(Len(seq) - 1) |->
                   IF n < CHOOSE m \in 1..Len(origin[i]) : origin[i][m] = <<"user", k>>
                   THEN seq[n] ELSE seq[n + 1]]
       IN
       IF succeeded(res)
       THEN /\ push(i, historyRef(i, calls[k].held),
                    [role |-> "assistant", content |-> assistantMsgOf(res)],
                    <<"assistant", k>>)
            /\ setState(i)
            /\ calls' = [calls EXCEPT ![k].status = "returned",
                                      ![k].reply = assistantMsgOf(res)]
       ELSE /\ state' = [state EXCEPT ![i] = without(state[i])]
            /\ origin' = [origin EXCEPT ![i] = without(origin[i])]
            /\ calls' = [calls EXCEPT ![k].status = "threw"]
            /\ UNCHANGED <<stored, originP>>
    /\ response' = NoResponse
    /\ action' = NoRequest
    /\ UNCHANGED <<now, tasks, nextId, fired, registrar, survived, unanswered, refused>>

\* agent.ts:102-118  generateResponse of the chat turn `k` resumes with the
\* fetch result: it pushes the reply, stores the history and returns the
\* reply, or throws; onRequest has not resumed yet, nothing is answered
fetchReturns(k, res) ==
    /\ k \in Pending
    /\ LET i == calls[k].id IN
       IF succeeded(res)
       THEN /\ push(i, historyRef(i, calls[k].held),
                    [role |-> "assistant", content |-> assistantMsgOf(res)],
                    <<"assistant", k>>)
            /\ setState(i)
            /\ calls' = [calls EXCEPT ![k].status = "returned",
                                      ![k].reply = assistantMsgOf(res)]
       ELSE /\ calls' = [calls EXCEPT ![k].status = "threw"]
            /\ UNCHANGED <<state, stored, origin, originP>>
    /\ response' = NoResponse
    /\ action' = NoRequest
    /\ UNCHANGED <<now, tasks, nextId, fired, registrar, survived, unanswered, refused>>

\* agent.ts:73-81  onRequest of the chat turn `k` resumes from
\* `await this.generateResponse`: it answers 200 with the reply, or its catch
\* answers 500
generateResponseReturns(k) ==
    /\ k \in Resuming
    /\ response' = IF calls[k].status = "returned"
                   THEN [status |-> 200, response |-> calls[k].reply]
                   ELSE [status |-> 500, text |-> "Internal error"]
    /\ calls' = [calls EXCEPT ![k].status = IF calls[k].status = "returned" THEN "200" ELSE "500",
                              ![k].response = response']
    /\ action' = NoRequest
    /\ UNCHANGED <<now, state, stored, tasks, nextId, fired, registrar, origin, originP,
                   survived, unanswered, refused>>

\* agent.ts:73  `await this.generateResponse` settles for one of the waiting turns
Replies == \E k \in 1..MaxReq : generateResponseReturns(k)

\* agent.ts:136-141  the callback, run on the agent that owns the task
sendReminder(t) ==
    /\ push(t.owner, historyRef(t.owner, state[t.owner]),
            reminderEntry(t.payload.message), <<"reminder", t.id>>)
    /\ setState(t.owner)

\* the scheduler's contract: a task is delivered at or after its fire time
Due(t) == IsValidDate(t.time) /\ ~Less(now, t.time.ms)

\* the scheduler delivers a due task to its callback, once, and drops it
Deliver ==
    \E t \in tasks :
        /\ Due(t)
        /\ sendReminder(t)
        /\ tasks' = tasks \ {t}
        /\ fired' = fired \cup {[task |-> t, on |-> t.owner, during |-> PendingOn(t.owner)]}
        /\ response' = NoResponse
        /\ action' = NoRequest
        /\ UNCHANGED <<now, nextId, calls, registrar, survived, unanswered, refused>>

\* the agent process of identity `i` is restarted: memory is lost, the next
\* read of this.state loads what setState stored; suspended turns, resumed
\* turns and unanswered requests die, the tasks of the scheduler stay
Restart(i) ==
    /\ survived' = survived \cup {t.id : t \in {u \in tasks : u.owner = i}}
    /\ unanswered' = {id \in unanswered : registrar[id] # i}
    /\ refused' = [refused EXCEPT ![i] = 0]
    /\ state' = [state EXCEPT ![i] = stored[i]]
    /\ origin' = [origin EXCEPT ![i] = originP[i]]
    /\ calls' = [k \in 1..Len(calls) |->
                    IF calls[k].id = i /\ k \in Pending \cup Resuming
                    THEN [calls[k] EXCEPT !.status = "aborted"]
                    ELSE calls[k]]
    /\ response' = NoResponse
    /\ action' = NoRequest
    /\ UNCHANGED <<now, stored, tasks, nextId, fired, registrar, originP>>

\* the tasks of the scheduler that have a fire time
Timed == {t \in tasks : IsValidDate(t.time)}

\* time passes until the next alarm of the scheduler is due
Alarm ==
    /\ \E t \in Timed :
          /\ Less(now, t.time.ms)
          /\ \A u \in Timed : Less(now, u.time.ms) => ~Less(u.time.ms, t.time.ms)
          /\ now' = t.time.ms
    /\ response' = NoResponse
    /\ action' = NoRequest
    /\ UNCHANGED <<state, stored, tasks, nextId, calls, fired, registrar, origin, originP, survived, unanswered, refused>>

Next ==
    \/ \E req \in Requests : onRequest(req.to, req)
    \/ \E k \in 1..MaxReq, res \in FetchResults : fetchReturns(k, res)
    \/ Replies
    \/ Answers
    \/ \E i \in Identities : scheduleRejects(i)
    \/ Deliver
    \/ \E i \in Identities : Restart(i)
    \/ Alarm

Spec == Init /\ [][Next]_vars

\* the scheduler fires every due task, and time does not stop before an alarm
SpecFair ==
    Spec /\ WF_vars(Alarm) /\ WF_vars(Deliver) /\ WF_vars(Answers) /\ WF_vars(Replies)

\* the completion endpoint answers, or fails, every call made for identity i
Returns(i) ==
    \E k \in 1..MaxReq, res \in FetchResults : k \in PendingOn(i) /\ fetchReturns(k, res)

\* the calls made for StuckIdentity may never return; everything else is fair
StuckIdentity == "alice"
SpecStuck ==
    /\ Spec
    /\ WF_vars(Alarm)
    /\ WF_vars(Deliver)
    /\ \A i \in Identities \ {StuckIdentity} : WF_vars(Returns(i))
    /\ WF_vars(Answers)
    /\ WF_vars(Replies)

\* ---------------------------------------------------------------- claims
Count(seq, x) == Cardinality({n \in 1..Len(seq) : seq[n] = x})
PosOf(seq, x) == CHOOSE n \in 1..Len(seq) : seq[n] = x
ChatsOn(i) == {k \in 1..Len(calls) : calls[k].id = i}
FiredOn(i) == {f \in fired : f.on = i}
UserEntry(k) == [role |-> "user", content |-> calls[k].userMsg]
AssistantEntry(k) == [role |-> "assistant", content |-> calls[k].response.response]
ReminderText(m) == <<"⏰", " ", "R", "e", "m", "i", "n", "d", "e", "r", ":", " ">> \o m
ReminderEntry(t) == [role |-> "assistant", content |-> ReminderText(t.payload.message)]

\* the invocation `tag` has exactly one entry in the history of i, in memory
\* and in the durable store, and that entry is `entry`
ExactlyOnce(i, tag, entry) ==
    /\ Count(origin[i], tag) = 1
    /\ state[i][PosOf(origin[i], tag)] = entry
    /\ Count(originP[i], tag) = 1
    /\ stored[i][PosOf(originP[i], tag)] = entry

\* C1: when a reminder fired while a chat turn of the same identity was
\* suspended at its completion call and that turn then finished with its
\* reply, the history holds the turn's user message, the turn's assistant
\* reply and the reminder entry, each exactly once, the user message before
\* the reply.
C1_ConcurrentReminderKeepsBoth ==
    \A f \in fired : \A k \in f.during :
        calls[k].status = "200" =>
            LET i == calls[k].id IN
            /\ ExactlyOnce(i, <<"user", k>>, UserEntry(k))
            /\ ExactlyOnce(i, <<"assistant", k>>, AssistantEntry(k))
            /\ ExactlyOnce(i, <<"reminder", f.task.id>>, ReminderEntry(f.task))
            /\ PosOf(origin[i], <<"user", k>>) < PosOf(origin[i], <<"assistant", k>>)

C1_Witness ==
    \E f \in fired : \E k \in f.during : calls[k].status = "200"

\* C2: two chat requests of one identity, the only turns of that identity,
\* both answered, no reminder fired: the history is
\* [user:m1, assistant:r1, user:m2, assistant:r2], whatever the order in which
\* the two completion calls returned.
C2_BackToBackAlternates ==
    \A i \in Identities : \A k1, k2 \in ChatsOn(i) :
        ( /\ k1 < k2
          /\ ChatsOn(i) = {k1, k2}
          /\ calls[k1].status = "200"
          /\ calls[k2].status = "200"
          /\ FiredOn(i) = {} )
        => state[i] = <<UserEntry(k1), AssistantEntry(k1), UserEntry(k2), AssistantEntry(k2)>>

\* C3: for each identity at most one invocation is inside its
\* read-append-persist cycle: no chat turn is admitted and no reminder is
\* delivered while a chat turn of the same identity is suspended.
C3_OneCycleInFlight ==
    /\ \A i \in Identities : Cardinality(PendingOn(i)) <= 1
    /\ \A k \in 1..Len(calls) : calls[k].alone
    /\ \A f \in fired : f.during = {}

\* the chat turns of i, in admission order, from turn k on
RECURSIVE TurnsFrom(_, _)
TurnsFrom(i, k) ==
    IF k > Len(calls) THEN <<>>
    ELSE IF calls[k].id = i
         THEN <<UserEntry(k), AssistantEntry(k)>> \o TurnsFrom(i, k + 1)
         ELSE TurnsFrom(i, k + 1)

\* every turn of i was admitted with no other turn of i suspended and was
\* answered, and no reminder fired on i
Sequential(i) ==
    /\ \A k \in ChatsOn(i) : calls[k].alone /\ calls[k].status = "200"
    /\ FiredOn(i) = {}

\* C4: after N sequential successful chat requests and no reminder firing,
\* the history is [user:m1, assistant:r1, ..., user:mN, assistant:rN]; the
\* payload of the i-th completion call is the history prefix ending at
\* user:mi, as role/content pairs, and ri is the response the i-th caller got.
C4_SequentialChats ==
    \A i \in Identities :
        Sequential(i) =>
            /\ state[i] = TurnsFrom(i, 1)
            /\ stored[i] = TurnsFrom(i, 1)
            /\ \A k \in ChatsOn(i) :
                  LET n == Cardinality({j \in ChatsOn(i) : j <= k}) IN
                  /\ calls[k].messages = SubSeq(TurnsFrom(i, 1), 1, 2 * n - 1)
                  /\ calls[k].response.status = 200
                  /\ state[i][2 * n] = AssistantEntry(k)
                  /\ state[i][2 * n - 1] = UserEntry(k)

C4_Witness ==
    \E i \in Identities : Sequential(i) /\ Cardinality(ChatsOn(i)) >= 2

\* the identity the invocation `tag` was addressed to
AddressedTo(tag) ==
    IF tag[1] = "reminder" THEN registrar[tag[2]] ELSE calls[tag[2]].id

\* C5: every entry of an identity's history, in memory and stored, was pushed
\* by an invocation addressed to that identity, and a reminder fires only on
\* the identity whose request registered it.
C5_Isolation ==
    /\ \A i \in Identities :
          /\ \A n \in 1..Len(origin[i]) : AddressedTo(origin[i][n]) = i
          /\ \A n \in 1..Len(originP[i]) : AddressedTo(originP[i][n]) = i
          /\ Len(origin[i]) = Len(state[i])
          /\ Len(originP[i]) = Len(stored[i])
    /\ \A f \in fired : f.on = registrar[f.task.id]

C5_Witness ==
    \E f \in fired : \E j \in Identities :
        /\ j # f.on
        /\ state[j] # <<>>
        /\ state[f.on] # state[j]

\* a POST whose body parsed to an object
IsPostObject(req) ==
    req.method = "POST" /\ req.body.json /\ "message" \in DOMAIN req.body
IsString(v) == v.type = "string"
IsNumber(v) == v.type = "number"
\* the message is missing, not a string, or the empty string
AbsentOrEmpty(m) == ~IsString(m) \/ m.str = <<>>
\* the message is a string with something in it besides blanks
NonBlank(m) == IsString(m) /\ \E n \in 1..Len(m.str) : m.str[n] \notin WhiteSpace
IsRemind(a) == a = [type |-> "string", str |-> <<"r", "e", "m", "i", "n", "d">>]

\* the message of a request: that of the object its body parsed to
MessageOf(req) ==
    IF req.body.json /\ "message" \in DOMAIN req.body THEN req.body.message ELSE Undefined

\* C6: a POST whose message is missing, not a string or empty, in the chat
\* and in the reminder variant, is answered 400 and changes neither the
\* history (in memory, stored) nor the tasks, and admits no completion call.
C6_MissingMessageRejected ==
    [][\A req \in Requests : \A i \in {req.to} :
         (req.method = "POST" /\ AbsentOrEmpty(MessageOf(req)) /\ onRequest(i, req))
         => /\ response'.status = 400
            /\ UNCHANGED <<state, stored, tasks, nextId, calls>>]_vars

\* C7: a POST with an action other than "remind" and a valid message is
\* answered 400 and changes neither the history nor the tasks, and admits
\* no completion call.
C7_UnknownActionRejected ==
    [][\A req \in Requests : \A i \in {req.to} :
         ( /\ IsPostObject(req)
           /\ req.body.action # Undefined
           /\ ~IsRemind(req.body.action)
           /\ NonBlank(req.body.message)
           /\ onRequest(i, req) )
         => /\ response'.status = 400
            /\ UNCHANGED <<state, stored, tasks, nextId, calls>>]_vars

\* C7 as the code has it: such a request is a chat turn: its message is
\* pushed as a user entry, the completion call is admitted with the history
\* as role/content pairs, nothing is answered yet, no task is registered.
C7_UnknownActionIsChat ==
    [][\A req \in Requests : \A i \in {req.to} :
         ( /\ IsPostObject(req)
           /\ req.body.action # Undefined
           /\ ~IsRemind(req.body.action)
           /\ NonBlank(req.body.message)
           /\ onRequest(i, req) )
         => /\ state'[i] = Append(state[i], [role |-> "user", content |-> req.body.message.str])
            /\ Len(calls') = Len(calls) + 1
            /\ calls'[Len(calls')].status = "pending"
            /\ calls'[Len(calls')].id = i
            /\ calls'[Len(calls')].messages = state'[i]
            /\ response' = NoResponse
            /\ UNCHANGED <<stored, tasks, nextId>>]_vars

C7_Witness ==
    /\ action \notin {NoRequest, Undefined}
    /\ ~IsRemind(action)
    /\ calls # <<>>
    /\ LET k == Len(calls) IN
       /\ calls[k].status = "pending"
       /\ Len(state[calls[k].id]) >= 3
       /\ state[calls[k].id][Len(state[calls[k].id])] = UserEntry(k)

\* the Date is the time t0 plus d seconds, to the fraction
IsTimePlus(date, t0, d) ==
    /\ IsValidDate(date)
    /\ Mul(date.ms, d.den)
          = Add(Mul(t0, d.den), Mul(MulPow10(BitsOf(d.num), d.exp), 1000))
IsLaterThan(date, t0) == IsValidDate(date) /\ Less(t0, date.ms)

\* C8: the task an accepted reminder request registers has callback
\* sendReminder, payload {message}, fire time now + delay seconds for a
\* positive delay and now + 60 seconds for an absent or non-positive one, and
\* a fire time later than now.
C8_FireTime ==
    [][\A req \in Requests : \A i \in {req.to} :
         ( /\ IsPostObject(req)
           /\ IsRemind(req.body.action)
           /\ tasks' # tasks
           /\ onRequest(i, req) )
         => \E t \in tasks' \ tasks :
              LET d == req.body.delay IN
              /\ t.callback = <<"s", "e", "n", "d", "R", "e", "m", "i", "n", "d", "e", "r">>
              /\ t.payload = [message |-> req.body.message.str]
              /\ (IsNumber(d) /\ d.num > 0) => IsTimePlus(t.time, now, d)
              /\ (d = Undefined \/ (IsNumber(d) /\ d.num <= 0))
                    => t.time = [ms |-> Add(now, BitsOf(60 * 1000))]
              /\ IsLaterThan(t.time, now)]_vars

\* every reminder entry of a history belongs to a task that has fired
ReminderEntriesAreFired ==
    \A i \in Identities : \A n \in 1..Len(origin[i]) :
        origin[i][n][1] = "reminder" => \E f \in fired : f.task.id = origin[i][n][2]

\* C9: a well-formed reminder request whose registration is not refused by
\* the scheduler registers exactly one task and, when it resumes, answers
\* 200 with that task's id as scheduledId; neither of its two steps changes
\* the history (in memory and stored) or the chat turns; a reminder entry is
\* in a history only once its task has fired.
C9_RegistrationFrame ==
    [][/\ \A req \in Requests : \A i \in {req.to} :
            ( /\ IsRemind(action')
              /\ refused' = refused
              /\ IsPostObject(req)
              /\ IsRemind(req.body.action)
              /\ NonBlank(req.body.message)
              /\ onRequest(i, req) )
            => /\ \E t \in tasks' : tasks' \ tasks = {t} /\ unanswered' \ unanswered = {t.id}
               /\ tasks \subseteq tasks'
               /\ UNCHANGED <<state, stored, calls>>
       /\ "scheduledId" \in DOMAIN response' =>
               /\ response'.status = 200
               /\ unanswered \ unanswered' = {response'.scheduledId}
               /\ response'.scheduledId \in 1..(nextId - 1)
               /\ UNCHANGED <<state, stored, tasks, nextId, calls>>
       /\ ReminderEntriesAreFired']_vars

C9_Witness ==
    /\ response.status = 200
    /\ "scheduledId" \in DOMAIN response
    /\ \E t \in tasks : t.id = response.scheduledId /\ state[t.owner] # <<>>

\* C10: a pending task has no entry in the history; it leaves the pending
\* set only at or after its fire time, by one step that appends
\* {assistant, "⏰ Reminder: " + m} to the end of the owner's history and
\* stores it; a fired task has exactly one entry from then on; and every
\* pending task eventually fires.
C10_Step ==
    /\ \A t \in tasks :
          /\ Count(origin[t.owner], <<"reminder", t.id>>) = 0
          /\ t \notin tasks' =>
                /\ IsValidDate(t.time)
                /\ ~Less(now, t.time.ms)
                /\ state'[t.owner] = Append(state[t.owner], ReminderEntry(t))
                /\ stored'[t.owner] = state'[t.owner]
                /\ \A u \in tasks' : u.id # t.id
                /\ \E f \in fired' : f.task = t
    /\ \A f \in fired' :
          /\ Count(origin'[f.on], <<"reminder", f.task.id>>) = 1
          /\ Count(originP'[f.on], <<"reminder", f.task.id>>) = 1
          /\ \A u \in tasks' : u.id # f.task.id

C10_ReminderFires ==
    /\ [][C10_Step]_vars
    /\ \A id \in 1..MaxReq :
          (\E t \in tasks : t.id = id) ~> (\E f \in fired : f.task.id = id)

IsPrefix(s, t) == Len(s) <= Len(t) /\ SubSeq(t, 1, Len(s)) = s
Failures == {res \in FetchResults : res.kind \in {"status", "throw"}}

\* C11  When the completion client fails (a non-success status or a
\* transport failure), no assistant message is appended for that request and
\* the history is left as it is, with the user message the request appended;
\* when the request then resumes, its caller gets status 500 and the history
\* still holds that user message and no assistant message of the request.
C11_FailureKeepsUserMessage ==
    [][\A k \in 1..MaxReq :
          /\ \A res \in Failures :
                fetchReturns(k, res) =>
                   LET i == calls[k].id IN
                   /\ calls'[k].status = "threw"
                   /\ state'[i] = state[i]
                   /\ stored'[i] = stored[i]
                   /\ Count(origin'[i], <<"assistant", k>>) = 0
                   /\ Count(origin'[i], <<"user", k>>) = 1
                   /\ state'[i][PosOf(origin'[i], <<"user", k>>)] = UserEntry(k)
          /\ (k \in Resuming /\ calls[k].status = "threw" /\ generateResponseReturns(k)) =>
                LET i == calls[k].id IN
                /\ response' = [status |-> 500, text |-> "Internal error"]
                /\ calls'[k].response = response'
                /\ calls'[k].status = "500"
                /\ state'[i] = state[i]
                /\ Count(origin'[i], <<"assistant", k>>) = 0
                /\ Count(origin'[i], <<"user", k>>) = 1
                /\ state'[i][PosOf(origin'[i], <<"user", k>>)] = UserEntry(k)]_vars

C11_Witness ==
    \E k \in 1..Len(calls) :
        /\ calls[k].status = "500"
        /\ response = [status |-> 500, text |-> "Internal error"]
        /\ Len(state[calls[k].id]) >= 1
        /\ state[calls[k].id][Len(state[calls[k].id])] = UserEntry(k)
        /\ Count(origin[calls[k].id], <<"assistant", k>>) = 0

\* C12  The user message of a chat request is in the durable store before
\* the completion call can fail: once the completion has failed, the history a
\* restarted agent reloads from the store contains that user message.
C12_UserMessageDurable ==
    \A k \in 1..Len(calls) :
        calls[k].status = "500" =>
            \E n \in 1..Len(stored[calls[k].id]) :
                /\ originP[calls[k].id][n] = <<"user", k>>
                /\ stored[calls[k].id][n] = UserEntry(k)

\* C13  A chat with message m fails and the caller sends it again: when the
\* retry has succeeded the history holds user:m once, followed by the reply.
C13_RetryDoesNotDuplicate ==
    \A i \in Identities : \A k1 \in ChatsOn(i) : \A k2 \in ChatsOn(i) :
        (/\ ChatsOn(i) = {k1, k2}
         /\ k1 < k2
         /\ FiredOn(i) = {}
         /\ calls[k1].userMsg = calls[k2].userMsg
         /\ calls[k1].status = "500"
         /\ calls[k2].alone
         /\ calls[k2].status = "200")
        => state[i] = <<UserEntry(k2), AssistantEntry(k2)>>

\* C14  The history only grows: across every step (chat success, chat
\* failure, reminder registration, reminder firing, rejected request, agent
\* restart) the history before the step is a prefix of the history after it.
C14_AppendOnly ==
    [][\A i \in Identities : IsPrefix(state[i], state'[i])]_vars

\* C15  An agent restarted between the registration of a reminder and its
\* firing: the task is still pending after the restart and still fires, and
\* sendReminder appends to the history reloaded from the store, so every
\* message persisted before the restart is still there, before the reminder
\* entry.
C15_Step ==
    /\ \A t \in tasks :
          /\ t.id \in survived' \ survived =>
                /\ t \in tasks'
                /\ state'[t.owner] = stored[t.owner]
                /\ stored'[t.owner] = stored[t.owner]
          /\ (t.id \in survived /\ t \notin tasks') =>
                /\ IsPrefix(stored[t.owner], state'[t.owner])
                /\ Len(state'[t.owner]) > Len(stored[t.owner])
                /\ state'[t.owner][Len(state'[t.owner])] = ReminderEntry(t)
                /\ stored'[t.owner] = state'[t.owner]
                /\ \E f \in fired' : f.task = t
    /\ \A id \in survived' :
          (\E t \in tasks' : t.id = id) # (\E f \in fired' : f.task.id = id)

C15_FiresAfterRestart ==
    /\ [][C15_Step]_vars
    /\ \A id \in 1..MaxReq :
          (id \in survived /\ \E t \in tasks : t.id = id)
              ~> (\E f \in fired : f.task.id = id)

\* C16  A completion call for identity A that never returns blocks the later
\* turns of A only: while it is pending no later turn of A completes, and for
\* every other identity B the chat requests, reminder registrations and
\* reminder firings still run to completion.
C16_OwnTurnsWait ==
    \A k1 \in ChatsOn(StuckIdentity) : \A k2 \in ChatsOn(StuckIdentity) :
        (k1 < k2 /\ calls[k1].status = "pending") => calls[k2].status = "pending"

\* the chat turns that were answered, or died with their agent
Finished == {k \in 1..Len(calls) : calls[k].status \in {"200", "500", "aborted"}}

C16_OthersProgress ==
    /\ \A k \in 1..MaxReq :
          (/\ k \in Pending \ PendingOn(StuckIdentity)
           /\ PendingOn(StuckIdentity) # {})
              ~> (k \in Finished)
    /\ \A id \in 1..MaxReq :
          (/\ id \in {j \in unanswered : registrar[j] # StuckIdentity}
           /\ PendingOn(StuckIdentity) # {})
              ~> (id \notin unanswered)
    /\ \A id \in 1..MaxReq :
          (/\ \E t \in Timed : t.id = id /\ t.owner # StuckIdentity
           /\ PendingOn(StuckIdentity) # {})
              ~> (\E f \in fired : f.task.id = id)

C16_BlocksOnlyItself == []C16_OwnTurnsWait /\ C16_OthersProgress

\* C17  A request whose method is not POST is answered 405, and a POST whose
\* body is missing or is not a valid request body (not JSON, or JSON that is
\* not an object) is answered 400; in both cases the history is unchanged, no
\* task is registered and the completion client is not called.
C17_BadRequestRejected ==
    [][\A req \in Requests : \A i \in {req.to} :
          (onRequest(i, req) /\ ~IsPostObject(req))
          => /\ response'.status = IF req.method # "POST" THEN 405 ELSE 400
             /\ UNCHANGED <<state, stored, tasks, nextId, calls>>]_vars

\* the reminder requests that pass the checks of the message
ReminderRequests ==
    {req \in Requests :
        IsPostObject(req) /\ IsRemind(req.body.action) /\ NonBlank(req.body.message)}


EmptyCompletions == {res \in FetchResults : res.kind = "ok" /\ res.content \in {Undefined, Str(<<>>)}}

\* C19  When the completion succeeds with an empty or absent text, an
\* assistant message with empty content is appended to the history and
\* persisted, and the caller, when the request resumes, gets status 200 with
\* an empty response.
C19_EmptyCompletion ==
    [][\A k \in 1..MaxReq :
          /\ \A res \in EmptyCompletions :
                fetchReturns(k, res) =>
                   LET i == calls[k].id IN
                   /\ state'[i] = Append(state[i], [role |-> "assistant", content |-> <<>>])
                   /\ stored'[i] = state'[i]
                   /\ calls'[k].status = "returned"
                   /\ calls'[k].reply = <<>>
          /\ ( /\ k \in Resuming
               /\ calls[k].status = "returned"
               /\ calls[k].reply = <<>>
               /\ generateResponseReturns(k) ) =>
                /\ response' = [status |-> 200, response |-> <<>>]
                /\ calls'[k].status = "200"
                /\ UNCHANGED <<state, stored>>]_vars

C19_Witness ==
    \E k \in 1..Len(calls) :
        /\ calls[k].status = "200"
        /\ response = [status |-> 200, response |-> <<>>]
        /\ stored[calls[k].id] = <<UserEntry(k), [role |-> "assistant", content |-> <<>>]>>
        /\ state[calls[k].id] = stored[calls[k].id]

\* the entries of the in-memory history of i that are not in the store
Unwritten(i) == (Len(stored[i]) + 1)..Len(state[i])

C20_Step ==
    /\ \A i \in Identities :
          /\ IsPrefix(stored'[i], state'[i])
          /\ origin'[i] = originP'[i] \o SubSeq(origin'[i], Len(stored'[i]) + 1, Len(state'[i]))
          /\ \A n \in (Len(stored'[i]) + 1)..Len(state'[i]) :
                /\ state'[i][n].role = "user"
                /\ origin'[i][n][1] = "user"
                /\ calls'[origin'[i][n][2]].status \in {"pending", "threw", "500"}
          /\ stored'[i] # stored[i] => stored'[i] = state'[i]
    /\ \A k \in 1..Len(calls) :
          (calls[k].status = "pending" /\ calls'[k].status = "returned")
              => stored'[calls[k].id] = state'[calls[k].id]
    /\ \A t \in tasks \ tasks' : stored'[t.owner] = state'[t.owner]

\* C20  The persisted history is always a prefix of the in-memory history;
\* they differ only by trailing entries not yet written by setState (the user
\* messages of chat requests that are pending or failed), and every setState
\* call (a successful chat, a reminder firing) makes them equal.
C20_StoredIsPrefix == [][C20_Step]_vars

C20_Witness ==
    \E i \in Identities :
        /\ stored[i] # <<>>
        /\ Unwritten(i) # {}
        /\ \E k \in ChatsOn(i) : calls[k].status = "500" /\ origin[i][Len(origin[i])] = <<"user", k>>

====
